---- MODULE Spec2Model ----
(***************************************************************************)
(* A model of the character reconciliation code of the spiders repository: *)
(*   character_info_cn.py   _merge_by_dict_key                              *)
(*   character_info.py      release date stamps, grouping, ordering         *)
(*                                                                         *)
(* Python strings are sequences of one-character strings; Ord gives the    *)
(* code point of a character.  A Python dict is a function; the empty dict *)
(* is the empty function << >>.  A call that can raise returns a record    *)
(* [exc |-> name of the exception or "none", val |-> the value].           *)
(***************************************************************************)
EXTENDS Integers, Sequences, FiniteSets, TLC

VARIABLES
    pc,               \* position of the running program
    dicts,            \* heap of outer dict objects: object id -> [key -> address of a value map]
    value_maps,       \* heap of inner dict objects: address -> [attribute -> string]
    inputs0,          \* the contents of the arguments when _merge_by_dict_key was entered
    mutations,        \* number of later changes made to the returned map
    tz,               \* UTC offset, in seconds, of the local timezone of the process
    character,        \* the argument of get_character_release_date_stamp
    stamp,            \* what get_character_release_date_stamp returned or raised
    sources,          \* the record sets of the Chinese and of the English source, by Chinese name
    character_info_map,  \* what get_character_info_map returned: [map, order of its keys]
    json,             \* what get_character_info_json returned (the ordered list) or raised
    single_half,      \* the half-cell given to __extract_enemy_info: its links, in document order
    enemy_info,       \* the stubs __extract_enemy_info collected before deduplication
    half_enemies,     \* what __extract_enemy_info returned or raised
    deduplicated_again,  \* __deduplicated_enemy_info of the list it returned before
    all_wikitable_rows,  \* the rows of one period, in document order
    period_info,      \* what __get_period_info returned or raised for those rows
    periods,          \* the configured periods: entries [period, periodKey], in order
    period_page,      \* the schedule page: periodKey -> the rows of that period
    period_idx,       \* number of configured periods get_period_info_map is done with
    period_info_map,  \* the map get_period_info_map builds, what it returned or raised
    fetches,          \* number of times the schedule page was fetched
    enemy_page,       \* the tbody elements of an enemy page, in document order
    resistance_info,  \* what get_base_resistance_info returned or raised
    character_names_cn,  \* the Chinese name of each English name of the English source
    character_info_with_en_name_key,  \* the merged English records: [map, order of its keys]
    character_info_with_cn_name_key   \* what the re-keying of those records gave

mergeVars == <<dicts, value_maps, inputs0, mutations>>
stampVars == <<tz, character, stamp>>
jsonVars == <<sources, character_info_map, json>>
extractVars == <<single_half, enemy_info, half_enemies, deduplicated_again>>
decodeVars == <<all_wikitable_rows, period_info>>
catalogVars == <<periods, period_page, period_idx, period_info_map, fetches>>
resistVars == <<enemy_page, resistance_info>>
rekeyVars ==
    <<character_names_cn, character_info_with_en_name_key, character_info_with_cn_name_key>>
characterVars == <<mergeVars, stampVars, jsonVars, rekeyVars>>
abyssVars == <<extractVars, decodeVars, catalogVars, resistVars>>
vars == <<pc, characterVars, abyssVars, rekeyVars>>

\* the variables of a part of the program that a specification does not run
NoMerge == dicts = << >> /\ value_maps = << >> /\ inputs0 = << >> /\ mutations = 0
NoStamp == tz = 0 /\ character = << >> /\ stamp = << >>
NoJson == sources = << >> /\ character_info_map = << >> /\ json = << >>
NoRekey ==
    /\ character_names_cn = << >>
    /\ character_info_with_en_name_key = << >>
    /\ character_info_with_cn_name_key = << >>
NoCharacters == NoMerge /\ NoStamp /\ NoJson /\ NoRekey
NoExtract ==
    single_half = << >> /\ enemy_info = << >> /\ half_enemies = << >> /\ deduplicated_again = << >>
NoDecode == all_wikitable_rows = << >> /\ period_info = << >>
NoCatalog ==
    /\ periods = << >> /\ period_page = << >> /\ period_idx = 0
    /\ period_info_map = << >> /\ fetches = 0
NoResist == enemy_page = << >> /\ resistance_info = << >>
NoAbyss == NoExtract /\ NoDecode /\ NoCatalog /\ NoResist

(***************************************************************************)
(* Bounds                                                                  *)
(***************************************************************************)
\* most attribute entries (over all keys) of one argument of the merge
MaxEntries == 2
\* most later changes applied to the map a merge returned
MaxMutations == 1
\* most attribute entries (over all keys) of the three arguments of the nested
\* merges together
MaxNestedEntries == 3
\* most whitespace-separated tokens of a release date string
MaxTokens == 4
\* most characters (identities) of the Chinese and the English source together
MaxCharacters == 3
\* most hyperlinks of a half-cell
MaxLinks == 3
\* most chambers of a period whose rows are not the regular three
MaxIrregular == 2
\* most entries of the configuration of periods
MaxPeriods == 2
\* most characters of the listing page of the English source
MaxEnglishNames == 3
\* most <tbody> elements of the resistance-classed tables of an enemy page
MaxTbodies == 2

(***************************************************************************)
(* Dict helpers                                                            *)
(***************************************************************************)
EmptyDict == << >>

\* d[k] = v
DictPut(d, k, v) == [x \in (DOMAIN d) \cup {k} |-> IF x = k THEN v ELSE d[x]]

\* del d[k]
DictDel(d, k) == [x \in (DOMAIN d) \ {k} |-> d[x]]

RECURSIVE SumOver(_, _)
SumOver(f, S) ==
    IF S = {} THEN 0
    ELSE LET x == CHOOSE y \in S : TRUE IN f[x] + SumOver(f, S \ {x})

(***************************************************************************)
(* character_info_cn.py: _merge_by_dict_key                                *)
(***************************************************************************)
\* the keys, attribute names and attribute values the merged maps are drawn from
MergeKeys == {<<"A">>, <<"H">>}
MergeAttrs == {"titleCn", "biligameUrl"}
MergeValues == {<<"x">>, <<"y">>}

ValueMaps == UNION {[S -> MergeValues] : S \in SUBSET MergeAttrs}
AllInfoMaps == UNION {[K -> ValueMaps] : K \in SUBSET MergeKeys}
Entries(m) == SumOver([k \in DOMAIN m |-> Cardinality(DOMAIN m[k])], DOMAIN m)
InfoMaps == {m \in AllInfoMaps : Entries(m) <= MaxEntries}

\* line 220: set(list(first_info_map.keys()) + list(second_info_map.keys()))
key_superset_first_only(first_info_map, second_info_map) ==
    DOMAIN first_info_map
key_superset_common(first_info_map, second_info_map) ==
    (DOMAIN first_info_map) \cap (DOMAIN second_info_map)
key_superset(first_info_map, second_info_map) ==
    (DOMAIN first_info_map) \cup (DOMAIN second_info_map)

\* lines 227-228 then 230-231: value_map[k] = v for the items of one inner
\* map, after those of another: the later assignment to an attribute stays
copy_items_keep_existing(value_map, items) ==
    [k \in (DOMAIN value_map) \cup (DOMAIN items) |->
        IF k \in DOMAIN value_map THEN value_map[k] ELSE items[k]]
copy_items_skip_collisions(value_map, items) ==
    [k \in ((DOMAIN value_map) \cup (DOMAIN items))
            \ {a \in (DOMAIN value_map) \cap (DOMAIN items) : value_map[a] # items[a]} |->
        IF k \in DOMAIN items THEN items[k] ELSE value_map[k]]
copy_items(value_map, items) ==
    [k \in (DOMAIN value_map) \cup (DOMAIN items) |->
        IF k \in DOMAIN items THEN items[k] ELSE value_map[k]]

\* lines 224-231: the value_map built for one key of the superset
merge_value_map(key, first_info_map, second_info_map) ==
    LET from_first ==
            IF key \in DOMAIN first_info_map
            THEN copy_items(EmptyDict, first_info_map[key])
            ELSE EmptyDict
    IN  IF key \in DOMAIN second_info_map
        THEN copy_items(from_first, second_info_map[key])
        ELSE from_first

\* lines 220-235, on the contents of the maps
_merge_by_dict_key(first_info_map, second_info_map) ==
    [key \in key_superset(first_info_map, second_info_map) |->
        merge_value_map(key, first_info_map, second_info_map)]

(***************************************************************************)
(* The merge on the heap.  An outer dict object holds, per key, the        *)
(* address of a value map object.                                          *)
(***************************************************************************)
\* the contents of the outer dict object id, inner maps included
Deref(id) == [k \in DOMAIN dicts[id] |-> value_maps[dicts[id][k]]]

\* line 224, value_map = {}: the object the value map of `key` is built in
value_map_object_reusing_first(new_id, key, first_id) ==
    IF key \in DOMAIN dicts[first_id] THEN dicts[first_id][key] ELSE <<new_id, key>>
value_map_object(new_id, key, first_id) == <<new_id, key>>

\* lines 220-235: a call that binds the returned dict object to new_id
MergeCall(new_id, first_id, second_id) ==
    LET first_info_map == Deref(first_id)
        second_info_map == Deref(second_id)
        merged == _merge_by_dict_key(first_info_map, second_info_map)
        merged_map == [key \in DOMAIN merged |-> value_map_object(new_id, key, first_id)]
        written == {merged_map[key] : key \in DOMAIN merged_map}
    IN  /\ dicts' = DictPut(dicts, new_id, merged_map)
        /\ value_maps' =
               [a \in (DOMAIN value_maps) \cup written |->
                   IF a \in written
                   THEN merged[CHOOSE key \in DOMAIN merged_map : merged_map[key] = a]
                   ELSE value_maps[a]]

InitMerge ==
    /\ pc = "start"
    /\ mutations = 0
    /\ NoStamp
    /\ NoJson
    /\ NoAbyss /\ NoRekey
    /\ \E first \in InfoMaps, second \in InfoMaps :
        /\ inputs0 = [first |-> first, second |-> second]
        /\ dicts = [id \in {"first", "second"} |->
                       IF id = "first"
                       THEN [k \in DOMAIN first |-> <<"first", k>>]
                       ELSE [k \in DOMAIN second |-> <<"second", k>>]]
        /\ value_maps =
               [a \in {<<"first", k>> : k \in DOMAIN first}
                      \cup {<<"second", k>> : k \in DOMAIN second} |->
                   IF a[1] = "first" THEN first[a[2]] ELSE second[a[2]]]

\* merged = _merge_by_dict_key(first, second)
Merge ==
    /\ pc = "start"
    /\ MergeCall("merged", "first", "second")
    /\ pc' = "merged"
    /\ UNCHANGED <<inputs0, mutations, stampVars, jsonVars, abyssVars, rekeyVars>>

\* swapped = _merge_by_dict_key(second, first)
MergeSwapped ==
    /\ pc = "merged"
    /\ MergeCall("swapped", "second", "first")
    /\ pc' = "both"
    /\ UNCHANGED <<inputs0, mutations, stampVars, jsonVars, abyssVars, rekeyVars>>

\* a caller's later merged[key][attr] = val
SetResultAttr ==
    /\ pc \in {"merged", "both"}
    /\ mutations < MaxMutations
    /\ \E key \in DOMAIN dicts["merged"], attr \in MergeAttrs, val \in MergeValues :
        value_maps' = [value_maps EXCEPT
                          ![dicts["merged"][key]] = DictPut(@, attr, val)]
    /\ mutations' = mutations + 1
    /\ UNCHANGED <<pc, dicts, inputs0, stampVars, jsonVars, abyssVars, rekeyVars>>

\* a caller's later del merged[key]
DelResultKey ==
    /\ pc \in {"merged", "both"}
    /\ mutations < MaxMutations
    /\ \E key \in DOMAIN dicts["merged"] :
        dicts' = [dicts EXCEPT !["merged"] = DictDel(@, key)]
    /\ mutations' = mutations + 1
    /\ UNCHANGED <<pc, value_maps, inputs0, stampVars, jsonVars, abyssVars, rekeyVars>>

NextMerge == Merge \/ MergeSwapped \/ SetResultAttr \/ DelResultKey

SpecMerge == InitMerge /\ [][NextMerge]_vars

(***************************************************************************)
(* The nested merges of _get_character_info (character_info_cn.py lines    *)
(* 278-281, character_info_en.py lines 255-258), and the same three maps   *)
(* merged in the other grouping.                                           *)
(***************************************************************************)
NestedMaps == {m \in AllInfoMaps : Entries(m) <= MaxNestedEntries}

InitNested ==
    /\ pc = "nested_start"
    /\ mutations = 0
    /\ NoStamp
    /\ NoJson
    /\ NoAbyss /\ NoRekey
    /\ \E first \in NestedMaps, second \in NestedMaps, third \in NestedMaps :
        /\ Entries(first) + Entries(second) + Entries(third) <= MaxNestedEntries
        /\ inputs0 = [first |-> first, second |-> second, third |-> third]
        /\ dicts = [id \in {"first", "second", "third"} |->
                       [k \in DOMAIN inputs0[id] |-> <<id, k>>]]
        /\ value_maps =
               [a \in UNION {{<<id, k>> : k \in DOMAIN inputs0[id]} :
                                id \in {"first", "second", "third"}} |->
                   inputs0[a[1]][a[2]]]

\* the inner call: _merge_by_dict_key(first, second)
MergeInnerLeft ==
    /\ pc = "nested_start"
    /\ MergeCall("first_second", "first", "second")
    /\ pc' = "inner_left"
    /\ UNCHANGED <<inputs0, mutations, stampVars, jsonVars, abyssVars, rekeyVars>>

\* the outer call: _merge_by_dict_key(_merge_by_dict_key(first, second), third)
MergeOuterLeft ==
    /\ pc = "inner_left"
    /\ MergeCall("left", "first_second", "third")
    /\ pc' = "left"
    /\ UNCHANGED <<inputs0, mutations, stampVars, jsonVars, abyssVars, rekeyVars>>

\* the other grouping, inner call: _merge_by_dict_key(second, third)
MergeInnerRight ==
    /\ pc = "left"
    /\ MergeCall("second_third", "second", "third")
    /\ pc' = "inner_right"
    /\ UNCHANGED <<inputs0, mutations, stampVars, jsonVars, abyssVars, rekeyVars>>

\* the other grouping: _merge_by_dict_key(first, _merge_by_dict_key(second, third))
MergeOuterRight ==
    /\ pc = "inner_right"
    /\ MergeCall("right", "first", "second_third")
    /\ pc' = "right"
    /\ UNCHANGED <<inputs0, mutations, stampVars, jsonVars, abyssVars, rekeyVars>>

NextNested == MergeInnerLeft \/ MergeOuterLeft \/ MergeInnerRight \/ MergeOuterRight

SpecNested == InitNested /\ [][NextNested]_vars

(***************************************************************************)
(* character_info.py: release date stamps                                  *)
(***************************************************************************)
\* a value returned, an exception raised
Return(v) == [exc |-> "none", val |-> v]
Raise(e) == [exc |-> e, val |-> 0]

RELEASE_DATE == "releaseDate"

\* sys.maxsize (line 102) is 2^63 - 1.  The integers of the model checker are 32
\* bits wide, so the sentinel stands here as the largest of them; every date of
\* the model lies before 2038, so that every timestamp is below it, as every
\* timestamp of a datetime (year at most 9999) is below 2^63 - 1.
MaxSize == 2147483647

\* line 13: calendar.month_name, without its empty entry 0
MONTH_NAME_TO_NUM ==
          (<<"J", "a", "n", "u", "a", "r", "y">> :> 1)
    @@ (<<"F", "e", "b", "r", "u", "a", "r", "y">> :> 2)
    @@ (<<"M", "a", "r", "c", "h">> :> 3)
    @@ (<<"A", "p", "r", "i", "l">> :> 4)
    @@ (<<"M", "a", "y">> :> 5)
    @@ (<<"J", "u", "n", "e">> :> 6)
    @@ (<<"J", "u", "l", "y">> :> 7)
    @@ (<<"A", "u", "g", "u", "s", "t">> :> 8)
    @@ (<<"S", "e", "p", "t", "e", "m", "b", "e", "r">> :> 9)
    @@ (<<"O", "c", "t", "o", "b", "e", "r">> :> 10)
    @@ (<<"N", "o", "v", "e", "m", "b", "e", "r">> :> 11)
    @@ (<<"D", "e", "c", "e", "m", "b", "e", "r">> :> 12)

Digits == {"0", "1", "2", "3", "4", "5", "6", "7", "8", "9"}
DigitValue ==
    ("0" :> 0) @@ ("1" :> 1) @@ ("2" :> 2) @@ ("3" :> 3) @@ ("4" :> 4) @@
    ("5" :> 5) @@ ("6" :> 6) @@ ("7" :> 7) @@ ("8" :> 8) @@ ("9" :> 9)

\* str.split(): the maximal runs of characters that are not whitespace
RECURSIVE SplitFrom(_, _, _)
SplitFrom(s, i, word) ==
    IF i > Len(s)
    THEN IF word = << >> THEN << >> ELSE <<word>>
    ELSE IF s[i] = " "
         THEN (IF word = << >> THEN << >> ELSE <<word>>) \o SplitFrom(s, i + 1, << >>)
         ELSE SplitFrom(s, i + 1, Append(word, s[i]))
split(s) == SplitFrom(s, 1, << >>)

\* s[:-1]
DropLast(s) == IF Len(s) = 0 THEN s ELSE SubSeq(s, 1, Len(s) - 1)

\* int(s) of a string without whitespace, sign or underscore: its decimal
\* value, ValueError unless it is a non-empty string of digits
RECURSIVE DecimalValue(_)
DecimalValue(s) ==
    IF s = << >> THEN 0 ELSE 10 * DecimalValue(DropLast(s)) + DigitValue[s[Len(s)]]
int(s) ==
    IF s # << >> /\ \A i \in 1..Len(s) : s[i] \in Digits
    THEN Return(DecimalValue(s))
    ELSE Raise("ValueError")

\* datetime: the proleptic Gregorian calendar
IsLeap(year) == year % 4 = 0 /\ (year % 100 # 0 \/ year % 400 = 0)
DaysInMonth(year, month) ==
    IF month = 2 THEN (IF IsLeap(year) THEN 29 ELSE 28)
    ELSE IF month \in {4, 6, 9, 11} THEN 30 ELSE 31
DaysBeforeYear(year) ==
    LET y == year - 1 IN y * 365 + (y \div 4) - (y \div 100) + (y \div 400)
RECURSIVE DaysBeforeMonth(_, _)
DaysBeforeMonth(year, month) ==
    IF month = 1 THEN 0
    ELSE DaysBeforeMonth(year, month - 1) + DaysInMonth(year, month - 1)
\* date.toordinal(): 1 is 1 January of year 1
ToOrdinal(year, month, day) == DaysBeforeYear(year) + DaysBeforeMonth(year, month) + day
EpochOrdinal == 719163

\* lines 56-62: int(time.mktime(datetime.datetime(year, month, day).timetuple()).real):
\* ValueError for a date the calendar does not have, else the seconds from the
\* epoch to the local midnight of that date (a zone without daylight saving)
local_midnight_stamp(year, month, day) ==
    IF year < 1 \/ year > 9999 \/ day < 1 \/ day > DaysInMonth(year, month)
    THEN Raise("ValueError")
    ELSE Return((ToOrdinal(year, month, day) - EpochOrdinal) * 86400 - tz)

\* line 60: date_string.split()[1][:-1], the day token without its last character
day_digits(date_string) == DropLast(split(date_string)[2])

\* lines 55-63, the arguments evaluated in the order written:
\* year (line 58), month (line 59), day (line 60)
convert_to_local_unix_date_tamp(date_string) ==
    LET tokens == split(date_string) IN
    IF Len(tokens) < 3 THEN Raise("IndexError")
    ELSE LET year == int(tokens[3]) IN
    IF year.exc # "none" THEN year
    ELSE IF tokens[1] \notin DOMAIN MONTH_NAME_TO_NUM THEN Raise("KeyError")
    ELSE LET day == int(day_digits(date_string)) IN
    IF day.exc # "none" THEN day
    ELSE local_midnight_stamp(year.val, MONTH_NAME_TO_NUM[tokens[1]], day.val)

\* line 102
get_character_release_date_stamp_with_fallback(c) ==
    IF RELEASE_DATE \in DOMAIN c
    THEN LET converted == convert_to_local_unix_date_tamp(c[RELEASE_DATE])
         IN  IF converted.exc = "none" THEN converted ELSE Return(MaxSize)
    ELSE Return(MaxSize)
get_character_release_date_stamp(c) ==
    IF RELEASE_DATE \in DOMAIN c
    THEN convert_to_local_unix_date_tamp(c[RELEASE_DATE])
    ELSE Return(MaxSize)

(***************************************************************************)
(* The release date strings and records the stamp is taken of              *)
(***************************************************************************)
\* the tokens a string can have at position i: a month, a day, a year, more
TokenChoices(i) ==
    LET MonthTokens ==
            {<<"S", "e", "p", "t", "e", "m", "b", "e", "r">>,
             <<"F", "e", "b", "r", "u", "a", "r", "y">>,
             <<"S", "e", "p", "t">>}
        DayTokens ==
            {<<"2", "8", ",">>, <<"2", "8">>, <<"5", ",">>, <<"5">>, <<"3", "0", ",">>,
             <<"x", ",">>}
        YearTokens == {<<"2", "0", "2", "2">>, <<"2", "0", "2", "0">>, <<"x">>}
        ExtraTokens == {<<"A", "D">>}
    IN  IF i = 1 THEN MonthTokens
        ELSE IF i = 2 THEN DayTokens
        ELSE IF i = 3 THEN YearTokens
        ELSE ExtraTokens

RECURSIVE TokenSeqs(_)
TokenSeqs(n) ==
    IF n = 0 THEN {<< >>}
    ELSE {Append(ts, t) : ts \in TokenSeqs(n - 1), t \in TokenChoices(n)}

RECURSIVE Join(_, _)
Join(tokens, sep) ==
    IF Len(tokens) = 0 THEN << >>
    ELSE IF Len(tokens) = 1 THEN tokens[1]
    ELSE tokens[1] \o sep \o Join(Tail(tokens), sep)

\* the tokens joined by one blank or by two
DateStrings ==
    {Join(ts, sep) : ts \in UNION {TokenSeqs(n) : n \in 0..MaxTokens},
                     sep \in {<<" ">>, <<" ", " ">>}}

\* records of a Chinese-only character (no release date, lines 90-95) and of
\* characters with the release date of the English source
StampRecords == {EmptyDict, "nameCn" :> <<"A", "m", "b", "e", "r">>}
StampCharacters ==
    StampRecords \cup {DictPut(c, RELEASE_DATE, d) : c \in StampRecords, d \in DateStrings}
TimeZones == {28800, -18000}

InitStamp ==
    /\ pc = "stamp_call"
    /\ NoMerge
    /\ NoJson
    /\ NoAbyss /\ NoRekey
    /\ tz \in TimeZones
    /\ character \in StampCharacters
    /\ stamp = << >>

\* stamp = get_character_release_date_stamp(character)
GetStamp ==
    /\ pc = "stamp_call"
    /\ stamp' = get_character_release_date_stamp(character)
    /\ pc' = "stamp_done"
    /\ UNCHANGED <<mergeVars, jsonVars, tz, character, abyssVars, rekeyVars>>

NextStamp == GetStamp

SpecStamp == InitStamp /\ [][NextStamp]_vars

(***************************************************************************)
(* character_info.py: grouping and ordering                                *)
(***************************************************************************)
\* ord(): the code points of the characters of the names of the model
Ord == ("A" :> 65) @@ ("Z" :> 90) @@ ("a" :> 97)

\* str <: the first differing character decides by code point, a proper prefix is smaller
RECURSIVE StrLess(_, _)
StrLess(a, b) ==
    IF b = << >> THEN FALSE
    ELSE IF a = << >> THEN TRUE
    ELSE IF a[1] # b[1] THEN Ord[a[1]] < Ord[b[1]]
    ELSE StrLess(Tail(a), Tail(b))

\* the grouping that binds a stamp to its latest character only
RECURSIVE group_from_overwriting(_, _, _)
group_from_overwriting(characters, i, new_dict) ==
    IF i > Len(characters) THEN Return(new_dict)
    ELSE LET date_stamp == get_character_release_date_stamp(characters[i]) IN
         IF date_stamp.exc # "none" THEN date_stamp
         ELSE group_from_overwriting(characters, i + 1,
                  DictPut(new_dict, date_stamp.val, <<characters[i]>>))

\* lines 24-29: new_dict[stamp].append(character) for the characters in the
\* order of the map's values; the first stamp that raises ends the call
RECURSIVE group_from(_, _, _)
group_from(characters, i, new_dict) ==
    IF i > Len(characters) THEN Return(new_dict)
    ELSE LET date_stamp == get_character_release_date_stamp(characters[i]) IN
         IF date_stamp.exc # "none" THEN date_stamp
         ELSE group_from(characters, i + 1,
                  DictPut(new_dict, date_stamp.val,
                      Append(IF date_stamp.val \in DOMAIN new_dict
                             THEN new_dict[date_stamp.val] ELSE << >>,
                             characters[i])))
group_by_release_date_stamp(characters) == group_from(characters, 1, EmptyDict)

\* line 39, the order of sorted(): whether key a goes before key b
name_after(a, b) == StrLess(b, a)
name_before(a, b) == StrLess(a, b)

\* sorted() is stable: an item goes behind the items that are not after it
RECURSIVE insert_sorted(_, _)
insert_sorted(sorted_list, item) ==
    IF sorted_list = << >> THEN <<item>>
    ELSE IF name_before(item["nameCn"], sorted_list[1]["nameCn"])
         THEN <<item>> \o sorted_list
         ELSE <<sorted_list[1]>> \o insert_sorted(Tail(sorted_list), item)
RECURSIVE sorted_from(_, _, _)
sorted_from(characters, i, sorted_list) ==
    IF i > Len(characters) THEN sorted_list
    ELSE sorted_from(characters, i + 1, insert_sorted(sorted_list, characters[i]))

\* lines 32-39: sorted(characters, key=lambda character: character["nameCn"]);
\* the keys of all items are taken first, KeyError for an item without nameCn
sort_by_character_name_cn(characters) ==
    IF \E i \in 1..Len(characters) : "nameCn" \notin DOMAIN characters[i]
    THEN Raise("KeyError")
    ELSE Return(sorted_from(characters, 1, << >>))

\* lines 182-183: the keys of the groups, list.sort()ed
RECURSIVE stamps_descending(_)
stamps_descending(stamps) ==
    IF stamps = {} THEN << >>
    ELSE LET top == CHOOSE x \in stamps : \A y \in stamps : y <= x
         IN  <<top>> \o stamps_descending(stamps \ {top})
RECURSIVE release_date_stamps_in_order(_)
release_date_stamps_in_order(stamps) ==
    IF stamps = {} THEN << >>
    ELSE LET least == CHOOSE x \in stamps : \A y \in stamps : x <= y
         IN  <<least>> \o release_date_stamps_in_order(stamps \ {least})

\* lines 185-189: ordered_character_list.extend(...) group by group
RECURSIVE extend_all(_, _, _)
extend_all(stamps_in_order, idx, groups) ==
    IF idx > Len(stamps_in_order) THEN << >>
    ELSE groups[stamps_in_order[idx]] \o extend_all(stamps_in_order, idx + 1, groups)

\* lines 177-191 on the values of the character info map, in the map's order.
\* json.dumps keeps the order of the list: the list stands for the string.
ordered_character_list(characters) ==
    LET grouped == group_by_release_date_stamp(characters) IN
    IF grouped.exc # "none" THEN grouped
    ELSE LET groups == grouped.val IN
         IF \E date_stamp \in DOMAIN groups :
                sort_by_character_name_cn(groups[date_stamp]).exc # "none"
         THEN Raise("KeyError")
         ELSE Return(extend_all(release_date_stamps_in_order(DOMAIN groups), 1,
                  [date_stamp \in DOMAIN groups |->
                      sort_by_character_name_cn(groups[date_stamp]).val]))

(***************************************************************************)
(* The two sources.  The Chinese source gives every character its nameCn   *)
(* (character_info_cn.py line 69), the English source a nameEn and a       *)
(* releaseDate (character_info_en.py lines 146-150), under the Chinese     *)
(* name found on the English page (lines 262-265).                         *)
(***************************************************************************)
Names == {<<"a">>, <<"Z">>, <<"A", "a">>, <<"A">>}
\* "September 28, 2022", "February 28, 2020", "February 28 2020", "Sept 28, 2022"
SourceDates ==
    LET September == <<"S", "e", "p", "t", "e", "m", "b", "e", "r">>
        February == <<"F", "e", "b", "r", "u", "a", "r", "y">>
        Year2022 == <<"2", "0", "2", "2">>
        Year2020 == <<"2", "0", "2", "0">>
    IN  {Join(<<September, <<"2", "8", ",">>, Year2022>>, <<" ">>),
         Join(<<February, <<"2", "8", ",">>, Year2020>>, <<" ">>),
         Join(<<February, <<"2", "8">>, Year2020>>, <<" ">>),
         Join(<<<<"S", "e", "p", "t">>, <<"2", "8", ",">>, Year2022>>, <<" ">>)}

CnRecord(name) == "nameCn" :> name
EnRecord(name, date) == ("nameEn" :> name) @@ (RELEASE_DATE :> date)
CnInfos == UNION {{[name \in K |-> CnRecord(name)]} : K \in SUBSET Names}
EnInfos ==
    UNION {{[name \in K |-> EnRecord(name, dates[name])] : dates \in [K -> SourceDates]} :
              K \in SUBSET Names}

\* the orders a set of keys can be iterated in (line 223 iterates a set)
Orders(K) == {order \in [1..Cardinality(K) -> K] : \A k \in K : \E i \in DOMAIN order : order[i] = k}

\* the values of the character info map, in the order of its keys
MapValues(info) == [i \in DOMAIN info.order |-> info.map[info.order[i]]]

InitJson ==
    /\ pc = "map_call"
    /\ NoMerge
    /\ NoAbyss /\ NoRekey
    /\ character = << >> /\ stamp = << >>
    /\ tz \in TimeZones
    /\ \E cn \in CnInfos, en \in EnInfos :
        /\ Cardinality((DOMAIN cn) \cup (DOMAIN en)) <= MaxCharacters
        /\ sources = [cn |-> cn, en |-> en]
    /\ character_info_map = << >>
    /\ json = << >>

\* lines 105-141: get_character_info_map()
GetCharacterInfoMap ==
    /\ pc = "map_call"
    /\ \E order \in Orders(key_superset(sources.cn, sources.en)) :
        character_info_map' =
            [map |-> _merge_by_dict_key(sources.cn, sources.en), order |-> order]
    /\ pc' = "json_call"
    /\ UNCHANGED <<mergeVars, stampVars, sources, json, abyssVars, rekeyVars>>

\* lines 177-191: get_character_info_json() on that map
GetCharacterInfoJson ==
    /\ pc = "json_call"
    /\ json' = ordered_character_list(MapValues(character_info_map))
    /\ pc' = "json_done"
    /\ UNCHANGED <<mergeVars, stampVars, sources, character_info_map, abyssVars, rekeyVars>>

NextJson == GetCharacterInfoMap \/ GetCharacterInfoJson

SpecJson == InitJson /\ [][NextJson]_vars

(***************************************************************************)
(* character_info_en.py: _get_character_info.  The names, the metadata,    *)
(* the page URLs and the Chinese names all have the keys of                *)
(* __get_character_page_urls (lines 43-46, 71, 146-151, 197-200).          *)
(***************************************************************************)
EnglishNames == {<<"A", "m", "b", "e", "r">>, <<"H", "u">>, <<"K", "e", "q">>, <<"Q", "i">>}
ChineseNames == {<<"U+5B89", "U+67CF">>, <<"U+80E1", "U+6843">>}

\* line 71, lines 146-151 and lines 114-116 for the characters of the listing
character_names(names) == [name \in names |-> "nameEn" :> name]
character_metadata(names) ==
    [name \in names |-> ("titleEn" :> (<<"T">> \o name)) @@ (RELEASE_DATE :> <<"d">>)]
character_page_urls(names) == [name \in names |-> "fandomUrl" :> (<<"/">> \o name)]

\* lines 262-265 from the i-th key of the English-keyed map on; KeyError for an
\* English name without a Chinese name
RECURSIVE with_cn_name_key_from(_, _, _, _)
with_cn_name_key_from(info, names_cn, i, rekeyed) ==
    IF i > Len(info.order) THEN Return(rekeyed)
    ELSE LET name_en == info.order[i] IN
         IF name_en \notin DOMAIN names_cn THEN Raise("KeyError")
         ELSE with_cn_name_key_from(info, names_cn, i + 1,
                  DictPut(rekeyed, names_cn[name_en], info.map[name_en]))

\* lines 260-267
with_cn_name_key(info, names_cn) == with_cn_name_key_from(info, names_cn, 1, EmptyDict)

InitRekey ==
    /\ pc = "english_call"
    /\ NoMerge /\ NoStamp /\ NoJson
    /\ NoAbyss
    /\ \E names \in SUBSET EnglishNames :
        /\ Cardinality(names) <= MaxEnglishNames
        /\ character_names_cn \in [names -> ChineseNames]
    /\ character_info_with_en_name_key = << >>
    /\ character_info_with_cn_name_key = << >>

\* lines 255-258: the nested merges; the keys of the result are in the order
\* of a set (line 223)
MergeEnglishInfo ==
    /\ pc = "english_call"
    /\ LET names == DOMAIN character_names_cn
           merged == _merge_by_dict_key(
                         _merge_by_dict_key(character_names(names), character_metadata(names)),
                         character_page_urls(names))
       IN  \E order \in Orders(DOMAIN merged) :
               character_info_with_en_name_key' = [map |-> merged, order |-> order]
    /\ pc' = "rekey_call"
    /\ UNCHANGED <<mergeVars, stampVars, jsonVars, abyssVars,
                   character_names_cn, character_info_with_cn_name_key>>

\* lines 260-267: the records under their Chinese names
RekeyToChineseNames ==
    /\ pc = "rekey_call"
    /\ character_info_with_cn_name_key' =
           with_cn_name_key(character_info_with_en_name_key, character_names_cn)
    /\ pc' = "rekey_done"
    /\ UNCHANGED <<mergeVars, stampVars, jsonVars, abyssVars,
                   character_names_cn, character_info_with_en_name_key>>

NextRekey == MergeEnglishInfo \/ RekeyToChineseNames

SpecRekey == InitRekey /\ [][NextRekey]_vars

(***************************************************************************)
(* period_info.py: the enemies of a half-cell                              *)
(*                                                                         *)
(* A hyperlink is [attrs |-> its HTML attributes, text |-> its visible     *)
(* text]; link.get(name) is None for an attribute the link does not have.  *)
(***************************************************************************)
\* line 10
ENEMY_PAGE_URL_PREFIX ==
    <<"h", "t", "t", "p", "s", ":", "/", "/", "w", "i", "k", "i", ".",
      "b", "i", "l", "i", "g", "a", "m", "e", ".", "c", "o", "m">>

\* urllib.parse.unquote: %XX becomes the character with that code, for the
\* codes of the model's hrefs; a % that no two hex digits follow stays
PercentDecoded == (<<"6", "1">> :> "a") @@ (<<"6", "2">> :> "b")
RECURSIVE unquote(_)
unquote(s) ==
    IF s = << >> THEN << >>
    ELSE IF s[1] = "%" /\ Len(s) >= 3 /\ <<s[2], s[3]>> \in DOMAIN PercentDecoded
         THEN <<PercentDecoded[<<s[2], s[3]>>]>> \o unquote(SubSeq(s, 4, Len(s)))
         ELSE <<s[1]>> \o unquote(Tail(s))

\* line 205: link.get("title") == link.get_text()
has_title(link) == "title" \in DOMAIN link.attrs
title_is_text(link) ==
    "title" \in DOMAIN link.attrs /\ link.attrs["title"] = link.text

\* lines 202-211: the stubs of the links whose title is their text, in the
\* order of the links; str + None raises TypeError for a link without href
RECURSIVE collect_enemy_info(_, _, _)
collect_enemy_info(links, i, infos) ==
    IF i > Len(links) THEN Return(infos)
    ELSE IF ~title_is_text(links[i]) THEN collect_enemy_info(links, i + 1, infos)
    ELSE IF "href" \notin DOMAIN links[i].attrs THEN Raise("TypeError")
    ELSE collect_enemy_info(links, i + 1,
             Append(infos,
                 [nameCn |-> links[i].attrs["title"],
                  biligameUrl |-> unquote(ENEMY_PAGE_URL_PREFIX \o links[i].attrs["href"])]))

\* lines 160-169
RECURSIVE deduplicated_from(_, _, _, _)
deduplicated_from(infos, i, existing_name_cn, deduplicated) ==
    IF i > Len(infos) THEN deduplicated
    ELSE IF infos[i].nameCn \notin existing_name_cn
         THEN deduplicated_from(infos, i + 1, existing_name_cn \cup {infos[i].nameCn},
                  Append(deduplicated, infos[i]))
         ELSE deduplicated_from(infos, i + 1, existing_name_cn, deduplicated)
RECURSIVE deduplicated_keeping_last(_)
deduplicated_keeping_last(infos) ==
    IF infos = << >> THEN << >>
    ELSE IF \E j \in 2..Len(infos) : infos[j].nameCn = infos[1].nameCn
         THEN deduplicated_keeping_last(Tail(infos))
         ELSE <<infos[1]>> \o deduplicated_keeping_last(Tail(infos))
deduplicated_enemy_info(infos) == deduplicated_from(infos, 1, {}, << >>)

\* lines 172-215
extract_enemy_info(links) ==
    LET collected == collect_enemy_info(links, 1, << >>) IN
    IF collected.exc # "none" THEN collected
    ELSE Return(deduplicated_enemy_info(collected.val))

\* the links of the half-cells of the model: two names, hrefs that differ,
\* hrefs that differ only in their quoting, a title that is not the text, no
\* title, no href
Link(title, text, href) == [attrs |-> ("title" :> title) @@ ("href" :> href), text |-> text]
HalfCells ==
    LET HalfLinks ==
            {Link(<<"a">>, <<"a">>, <<"/", "a">>),
             Link(<<"a">>, <<"a">>, <<"/", "%", "6", "1">>),
             Link(<<"a">>, <<"a">>, <<"/", "x">>),
             Link(<<"b">>, <<"b">>, <<"/", "b">>),
             Link(<<"a">>, <<"b">>, <<"/", "a">>),
             [attrs |-> "href" :> <<"/", "a">>, text |-> <<"a">>],
             [attrs |-> "title" :> <<"b">>, text |-> <<"b">>]}
    IN  UNION {[1..n -> HalfLinks] : n \in 0..MaxLinks}

InitExtract ==
    /\ pc = "extract_call"
    /\ NoCharacters
    /\ NoDecode /\ NoCatalog /\ NoResist
    /\ single_half \in HalfCells
    /\ enemy_info = << >>
    /\ half_enemies = << >>
    /\ deduplicated_again = << >>

\* half_enemies = __extract_enemy_info(single_half)
ExtractEnemyInfo ==
    /\ pc = "extract_call"
    /\ enemy_info' = collect_enemy_info(single_half, 1, << >>)
    /\ half_enemies' = extract_enemy_info(single_half)
    /\ pc' = "extract_done"
    /\ UNCHANGED <<characterVars, decodeVars, catalogVars, resistVars,
                   single_half, deduplicated_again>>

\* deduplicated_again = __deduplicated_enemy_info(the list returned)
DeduplicateAgain ==
    /\ pc = "extract_done"
    /\ half_enemies.exc = "none"
    /\ deduplicated_again' = deduplicated_enemy_info(half_enemies.val)
    /\ pc' = "deduplicated_again"
    /\ UNCHANGED <<characterVars, decodeVars, catalogVars, resistVars,
                   single_half, enemy_info, half_enemies>>

NextExtract == ExtractEnemyInfo \/ DeduplicateAgain

SpecExtract == InitExtract /\ [][NextExtract]_vars

(***************************************************************************)
(* period_info.py: the rows of a period                                    *)
(*                                                                         *)
(* A row is [th |-> header, td |-> cell]: each is << >> for an element the *)
(* row does not have, else <<text>> and <<[center, links]>>, the center    *)
(* again << >> or <<text>>.  A character outside ASCII is written by its   *)
(* code point.                                                             *)
(***************************************************************************)
\* line 72: "怪物等级"; lines 262-263: "上半", "下半"
ENEMY_LEVEL == <<"U+602A", "U+7269", "U+7B49", "U+7EA7">>
FIRST_HALF == <<"U+4E0A", "U+534A">>
SECOND_HALF == <<"U+4E0B", "U+534A">>

\* needle in text, of two strings
Contains(text, needle) ==
    \E i \in 0..(Len(text) - Len(needle)) :
        \A j \in 1..Len(needle) : text[i + j] = needle[j]

\* str.split(sep) for a separator of one character
RECURSIVE SplitOnFrom(_, _, _, _)
SplitOnFrom(s, sep, i, word) ==
    IF i > Len(s) THEN <<word>>
    ELSE IF s[i] = sep
         THEN <<word>> \o SplitOnFrom(s, sep, i + 1, << >>)
         ELSE SplitOnFrom(s, sep, i + 1, Append(word, s[i]))
split_on(s, sep) == SplitOnFrom(s, sep, 1, << >>)

\* line 74: int(row.td.center.get_text().split(".")[1])
enemy_level_of(row) ==
    IF row.td = << >> \/ row.td[1].center = << >> THEN Raise("AttributeError")
    ELSE LET parts == split_on(row.td[1].center[1], ".") IN
         IF Len(parts) < 2 THEN Raise("IndexError") ELSE int(parts[2])

\* lines 69-76
RECURSIVE enemy_levels_from(_, _, _)
enemy_levels_from(rows, i, ordered_enemy_levels) ==
    IF i > Len(rows) THEN Return(ordered_enemy_levels)
    ELSE IF rows[i].th # << >> /\ Contains(rows[i].th[1], ENEMY_LEVEL)
         THEN LET level == enemy_level_of(rows[i]) IN
              IF level.exc # "none" THEN level
              ELSE enemy_levels_from(rows, i + 1, Append(ordered_enemy_levels, level.val))
         ELSE enemy_levels_from(rows, i + 1, ordered_enemy_levels)
get_enemy_levels_in_order(rows) == enemy_levels_from(rows, 1, << >>)

\* lines 110-120
RECURSIVE halves_from(_, _, _, _)
halves_from(half, rows, i, ordered_halves) ==
    IF i > Len(rows) THEN ordered_halves
    ELSE IF rows[i].th # << >> /\ Contains(rows[i].th[1], half) /\ rows[i].td # << >>
         THEN halves_from(half, rows, i + 1, Append(ordered_halves, rows[i].td[1]))
         ELSE halves_from(half, rows, i + 1, ordered_halves)
get_halves_in_order(half, rows) == halves_from(half, rows, 1, << >>)

\* lines 266-271: [__extract_enemy_info(single_half) for single_half in halves]
RECURSIVE enemy_info_of_halves(_, _, _)
enemy_info_of_halves(halves, i, infos) ==
    IF i > Len(halves) THEN Return(infos)
    ELSE LET extracted == extract_enemy_info(halves[i].links) IN
         IF extracted.exc # "none" THEN extracted
         ELSE enemy_info_of_halves(halves, i + 1, Append(infos, extracted.val))

\* lines 276-394: the index written for each chamber of each floor
FloorSlots ==
    [floor9 |-> [chamber1 |-> 0, chamber2 |-> 1, chamber3 |-> 2],
     floor10 |-> [chamber1 |-> 3, chamber2 |-> 4, chamber3 |-> 5],
     floor11 |-> [chamber1 |-> 6, chamber2 |-> 7, chamber3 |-> 8],
     floor12 |-> [chamber1 |-> 9, chamber2 |-> 10, chamber3 |-> 11]]
slot_index_pasted(floor, chamber) ==
    IF floor = "floor10" /\ chamber = "chamber3" THEN 4 ELSE FloorSlots[floor][chamber]
slot_index(floor, chamber) == FloorSlots[floor][chamber]

\* a_list[idx]: IndexError past the end of the list
item_or_last(a_list, idx) ==
    IF a_list = << >> THEN Raise("IndexError")
    ELSE IF idx >= Len(a_list) THEN Return(a_list[Len(a_list)]) ELSE Return(a_list[idx + 1])
item(a_list, idx) ==
    IF idx >= Len(a_list) THEN Raise("IndexError") ELSE Return(a_list[idx + 1])

\* lines 262-396 on the rows of the period
get_period_info(rows) ==
    LET first_halves_in_order == get_halves_in_order(FIRST_HALF, rows)
        second_halves_in_order == get_halves_in_order(SECOND_HALF, rows)
        first_infos == enemy_info_of_halves(first_halves_in_order, 1, << >>)
        second_infos == enemy_info_of_halves(second_halves_in_order, 1, << >>)
        enemy_levels_in_order == get_enemy_levels_in_order(rows)
        level_at(f, c) == item(enemy_levels_in_order.val, slot_index(f, c))
        first_at(f, c) == item(first_infos.val, slot_index(f, c))
        second_at(f, c) == item(second_infos.val, slot_index(f, c))
    IN  IF first_infos.exc # "none" THEN first_infos
        ELSE IF second_infos.exc # "none" THEN second_infos
        ELSE IF enemy_levels_in_order.exc # "none" THEN enemy_levels_in_order
        ELSE IF \E f \in DOMAIN FloorSlots : \E c \in DOMAIN FloorSlots[f] :
                    \/ level_at(f, c).exc # "none"
                    \/ first_at(f, c).exc # "none"
                    \/ second_at(f, c).exc # "none"
             THEN Raise("IndexError")
        ELSE Return([f \in DOMAIN FloorSlots |->
                        [c \in DOMAIN FloorSlots[f] |->
                            [enemyLevel |-> level_at(f, c).val,
                             firstHalf |-> [enemies |-> first_at(f, c).val],
                             secondHalf |-> [enemies |-> second_at(f, c).val]]]])

(***************************************************************************)
(* The rows of the periods of the model: twelve chambers, each with a      *)
(* level row, a first-half row and a second-half row, the levels those of  *)
(* the docstring (line 36); some chambers are irregular.                   *)
(***************************************************************************)
DocLevels == <<72, 74, 76, 80, 82, 85, 88, 90, 92, 95, 98, 100>>
DigitChars == <<"0", "1", "2", "3", "4", "5", "6", "7", "8", "9">>
RECURSIVE Decimal(_)
Decimal(n) ==
    IF n < 10 THEN <<DigitChars[n + 1]>>
    ELSE Decimal(n \div 10) \o <<DigitChars[(n % 10) + 1]>>

LevelRow(level) ==
    [th |-> <<ENEMY_LEVEL>>,
     td |-> <<[center |-> <<(<<"L", "v", ".">> \o Decimal(level))>>, links |-> << >>]>>]
\* a half cell: the enemy twice and a link whose title is not its text
HalfRow(half, name) ==
    LET EnemyLink == Link(name, name, <<"/">> \o name)
    IN  [th |-> <<half>>,
         td |-> <<[center |-> << >>,
                   links |-> <<EnemyLink, Link(<<"i">>, name, <<"/", "i">>), EnemyLink>>]>>]

ChamberShapes ==
    {"no_level", "extra_level", "low_level", "no_center",
     "no_first", "no_second_cell", "extra_second"}
ChamberRows(c, shape) ==
    LET level == LevelRow(DocLevels[c])
        first == HalfRow(FIRST_HALF, <<"F">> \o Decimal(c))
        second == HalfRow(SECOND_HALF, <<"S">> \o Decimal(c))
        \* a level row whose cell has no <center>
        LevelRowNoCenter ==
            [th |-> <<ENEMY_LEVEL>>, td |-> <<[center |-> << >>, links |-> << >>]>>]
        \* the half row of the other renderings: no cell
        HalfRowNoCell(half) == [th |-> <<half>>, td |-> << >>]
    IN  CASE shape = "regular" -> <<level, first, second>>
          [] shape = "no_level" -> <<first, second>>
          [] shape = "extra_level" -> <<level, level, first, second>>
          [] shape = "low_level" -> <<LevelRow(60), first, second>>
          [] shape = "no_center" -> <<LevelRowNoCenter, first, second>>
          [] shape = "no_first" -> <<level, second>>
          [] shape = "no_second_cell" -> <<level, first, HalfRowNoCell(SECOND_HALF)>>
          [] shape = "extra_second" ->
                 <<level, first, second, HalfRow(SECOND_HALF, <<"X">> \o Decimal(c))>>

RECURSIVE PeriodRowsFrom(_, _)
PeriodRowsFrom(shapes, c) ==
    IF c > 12 THEN << >>
    ELSE ChamberRows(c, IF c \in DOMAIN shapes THEN shapes[c] ELSE "regular")
         \o PeriodRowsFrom(shapes, c + 1)
\* the rows of a period whose chambers are regular but for those of `shapes`
PeriodRows(shapes) == PeriodRowsFrom(shapes, 1)

\* the chambers that can be irregular: the first and the last of the period and
\* those on both sides of a floor's end
IrregularChambers ==
    LET IrregularAt == {1, 3, 4, 6, 9, 12}
    IN  UNION {[I -> ChamberShapes] :
                  I \in {J \in SUBSET IrregularAt : Cardinality(J) <= MaxIrregular}}

InitDecode ==
    /\ pc = "period_call"
    /\ NoCharacters
    /\ NoExtract /\ NoCatalog /\ NoResist
    /\ \E shapes \in IrregularChambers : all_wikitable_rows = PeriodRows(shapes)
    /\ period_info = << >>

\* lines 262-396: __get_period_info on the rows of the period
GetPeriodInfo ==
    /\ pc = "period_call"
    /\ period_info' = get_period_info(all_wikitable_rows)
    /\ pc' = "period_done"
    /\ UNCHANGED <<characterVars, extractVars, catalogVars, resistVars, all_wikitable_rows>>

NextDecode == GetPeriodInfo

SpecDecode == InitDecode /\ [][NextDecode]_vars

(***************************************************************************)
(* period_info.py: get_period_info_map                                     *)
(***************************************************************************)
\* line 260: the rows under the <span> whose id is period_id; find() gives None
\* for an id the page does not have, and None has no find_all_next
get_all_wikitable_rows_by_period_id(page, period_id) ==
    IF period_id \in DOMAIN page THEN Return(page[period_id])
    ELSE Raise("AttributeError")

\* lines 258-396: __get_period_info of a period id, once the page is fetched
get_period_info_of_page(page, period_id) ==
    LET rows == get_all_wikitable_rows_by_period_id(page, period_id)
    IN  IF rows.exc # "none" THEN rows ELSE get_period_info(rows.val)

\* the comprehension that drops a period whose decoding raised
period_info_map_skipping(built, period, page) ==
    LET info == get_period_info_of_page(page, period.periodKey)
    IN  IF info.exc # "none" THEN Return(built)
        ELSE Return(DictPut(built, period.period, info.val))

\* the comprehension that keeps the first record of a label
period_info_map_keeping_first(built, period, page) ==
    LET info == get_period_info_of_page(page, period.periodKey)
    IN  IF info.exc # "none" THEN info
        ELSE IF period.period \in DOMAIN built THEN Return(built)
        ELSE Return(DictPut(built, period.period, info.val))

\* line 423: one iteration of the dict comprehension
period_info_map_after(built, period, page) ==
    LET info == get_period_info_of_page(page, period.periodKey)
    IN  IF info.exc # "none" THEN info
        ELSE Return(DictPut(built, period.period, info.val))

\* periods.json: labels and keys of the periods; no page has the key "gone"
PeriodKeys == {"k1", "k2", "gone"}
PeriodConfigs ==
    LET PeriodEntries == [period : {"2022-07-16", "2022-09-01"}, periodKey : PeriodKeys]
    IN  UNION {[1..n -> PeriodEntries] : n \in 0..MaxPeriods}

\* the periods of a page: a regular one, one whose first level is lower, and one
\* without the level row of its last chamber
PeriodPages ==
    LET PagePeriods ==
            {PeriodRows(<< >>), PeriodRows(1 :> "low_level"), PeriodRows(12 :> "no_level")}
    IN  UNION {[K -> PagePeriods] : K \in SUBSET (PeriodKeys \ {"gone"})}

InitCatalog ==
    /\ pc = "catalog_call"
    /\ NoCharacters
    /\ NoExtract /\ NoDecode /\ NoResist
    /\ periods \in PeriodConfigs
    /\ period_page \in PeriodPages
    /\ period_idx = 0
    /\ period_info_map = << >>
    /\ fetches = 0

\* line 423, one period: __get_period_info fetches the page (line 258), decodes
\* the period and the comprehension stores the record under the label
DecodeNextPeriod ==
    /\ pc = "catalog_call"
    /\ period_idx < Len(periods)
    /\ fetches' = fetches + 1
    /\ LET after == period_info_map_after(period_info_map, periods[period_idx + 1], period_page)
       IN  IF after.exc = "none"
           THEN /\ period_info_map' = after.val
                /\ period_idx' = period_idx + 1
                /\ pc' = pc
           ELSE /\ period_info_map' = after
                /\ period_idx' = period_idx
                /\ pc' = "catalog_raised"
    /\ UNCHANGED <<characterVars, extractVars, decodeVars, resistVars, periods, period_page>>

\* line 423: the comprehension is through, the dict is returned
ReturnPeriodInfoMap ==
    /\ pc = "catalog_call"
    /\ period_idx = Len(periods)
    /\ period_info_map' = Return(period_info_map)
    /\ pc' = "catalog_done"
    /\ UNCHANGED <<characterVars, extractVars, decodeVars, resistVars,
                   periods, period_page, period_idx, fetches>>

NextCatalog == DecodeNextPeriod \/ ReturnPeriodInfoMap

SpecCatalog == InitCatalog /\ [][NextCatalog]_vars

(***************************************************************************)
(* resistance.py.  A <tbody> is the sequence of its rows, a row has its    *)
(* <th> cells and its <td> cells, a cell is the sequence of its child      *)
(* nodes: a string (tag "") or an element with its text.                   *)
(***************************************************************************)
RESISTANCE == <<"U+6297", "U+6027">>
None == "None"

RECURSIVE get_text_from(_, _)
get_text_from(nodes, i) ==
    IF i > Len(nodes) THEN << >> ELSE nodes[i].text \o get_text_from(nodes, i + 1)
\* Tag.get_text(): the strings of the cell, joined
get_text(cell) == get_text_from(cell, 1)

RECURSIVE lstrip(_)
lstrip(s) == IF s # << >> /\ Head(s) = " " THEN lstrip(Tail(s)) ELSE s
RECURSIVE rstrip(_)
rstrip(s) == IF s # << >> /\ s[Len(s)] = " " THEN rstrip(SubSeq(s, 1, Len(s) - 1)) ELSE s
\* str.strip()
strip(s) == rstrip(lstrip(s))

\* lines 89, 91: [column.get_text().strip() for column in ...]
stripped_texts(cells) == [i \in 1..Len(cells) |-> strip(get_text(cells[i]))]

\* line 92: dict(zip(keys, values)); a later pair of a key replaces an earlier
RECURSIVE dict_zip_from(_, _, _, _)
dict_zip_from(keys, values, i, d) ==
    IF i > Len(keys) \/ i > Len(values) THEN d
    ELSE dict_zip_from(keys, values, i + 1, DictPut(d, keys[i], values[i]))
dict_zip(keys, values) == dict_zip_from(keys, values, 1, << >>)

\* lines 84-92: __parse_base_resistance_info
parse_base_resistance_info(tbody) ==
    LET resistance_types == IF Len(tbody) >= 2 THEN stripped_texts(tbody[2].th) ELSE << >>
        base_resistance_values == IF Len(tbody) >= 3 THEN stripped_texts(tbody[3].td) ELSE << >>
    IN  dict_zip(resistance_types, base_resistance_values)

\* line 127: "..." in tbody.find("tr").th; find gives None for a tbody without a
\* row, .th gives None for a row without a header cell, and `in` on an element
\* looks among its child nodes for a string equal to the marker
has_resistance_header(tbody) ==
    IF tbody = << >> THEN Raise("AttributeError")
    ELSE IF tbody[1].th = << >> THEN Raise("TypeError")
    ELSE Return(\E i \in 1..Len(tbody[1].th[1]) :
                    tbody[1].th[1][i].tag = "" /\ tbody[1].th[1][i].text = RESISTANCE)

\* lines 126-128 from tbody i on; the loop over, the function ends without a
\* return statement
RECURSIVE base_resistance_info_from(_, _)
base_resistance_info_from(all_tbody_elements, i) ==
    IF i > Len(all_tbody_elements) THEN Return(None)
    ELSE LET tbody == all_tbody_elements[i]
             found == has_resistance_header(tbody)
         IN  IF found.exc # "none" THEN found
             ELSE IF found.val THEN Return(parse_base_resistance_info(tbody))
             ELSE base_resistance_info_from(all_tbody_elements, i + 1)

\* lines 124-128: get_base_resistance_info, once the page is fetched
get_base_resistance_info(all_tbody_elements) ==
    base_resistance_info_from(all_tbody_elements, 1)

\* the <tbody> elements of the model: the resistance table of the docstring
\* (lines 52-79) with two types, one with a value missing, one of the header
\* row only, one whose marker is inside a <span>, a table of something else, a
\* table whose first row has no header cell, and an empty <tbody>
Tbodies ==
    LET Str(s) == [tag |-> "", text |-> s]
        Elem(tag, s) == [tag |-> tag, text |-> s]
        TypeCell(name) == <<Elem("img", << >>), Str(<<" ">> \o name)>>
        ColouredTypeCell(name) == <<Elem("img", << >>), Str(<<" ">>), Elem("span", name)>>
        HeaderRow(cell) == [th |-> <<cell>>, td |-> << >>]
        TypesRow ==
            [th |-> <<TypeCell(<<"U+7269", "U+7406">>), ColouredTypeCell(<<"U+706B">>)>>,
             td |-> << >>]
        ValuesRow(n) ==
            [th |-> << >>,
             td |-> SubSeq(<<(<<Str(<<"1", "0", "%">>)>>), (<<Elem("span", <<"U+221E">>)>>)>>,
                           1, n)]
        HiddenRow == [th |-> << >>, td |-> <<(<< >>)>>]
        ResistanceHeader == <<Str(RESISTANCE), Elem("sup", <<"[", "2", "]">>)>>
    IN  {<<HeaderRow(ResistanceHeader), TypesRow, ValuesRow(2), HiddenRow>>,
         <<HeaderRow(ResistanceHeader), TypesRow, ValuesRow(1), HiddenRow>>,
         <<HeaderRow(ResistanceHeader)>>,
         <<HeaderRow(<<Elem("span", RESISTANCE)>>), TypesRow, ValuesRow(2)>>,
         <<HeaderRow(<<Str(<<"H", "P">>)>>), ValuesRow(1)>>,
         <<ValuesRow(2)>>,
         << >>}
EnemyPages == UNION {[1..n -> Tbodies] : n \in 0..MaxTbodies}

InitResistance ==
    /\ pc = "resistance_call"
    /\ NoCharacters
    /\ NoExtract /\ NoDecode /\ NoCatalog
    /\ enemy_page \in EnemyPages
    /\ resistance_info = << >>

\* lines 123-128: get_base_resistance_info of the page
GetBaseResistanceInfo ==
    /\ pc = "resistance_call"
    /\ resistance_info' = get_base_resistance_info(enemy_page)
    /\ pc' = "resistance_done"
    /\ UNCHANGED <<characterVars, extractVars, decodeVars, catalogVars, enemy_page>>

NextResistance == GetBaseResistanceInfo

SpecResistance == InitResistance /\ [][NextResistance]_vars

(***************************************************************************)
(* Claims about _merge_by_dict_key, checked under SpecMerge                *)
(***************************************************************************)
\* the map bound to `merged` is as the call returned it
MergedAsReturned == pc \in {"merged", "both"} /\ mutations = 0
\* both calls have returned and neither result was changed since
BothAsReturned == pc = "both" /\ mutations = 0

\* some key of both arguments has an attribute of both inner maps whose two values differ
Collisions ==
    {ka \in MergeKeys \X MergeAttrs :
        /\ ka[1] \in (DOMAIN inputs0.first) \cap (DOMAIN inputs0.second)
        /\ ka[2] \in (DOMAIN inputs0.first[ka[1]]) \cap (DOMAIN inputs0.second[ka[1]])
        /\ inputs0.first[ka[1]][ka[2]] # inputs0.second[ka[1]][ka[2]]}

\* C1: the key set of the merged map is the union of the key sets of the two
\* arguments, and a key of only one argument carries exactly that argument's
\* attributes; the call returns for every pair of arguments.
C1_KeyUnion ==
    /\ pc = "start" => ENABLED Merge
    /\ MergedAsReturned =>
        LET merged == Deref("merged")
            first == inputs0.first
            second == inputs0.second
        IN  /\ DOMAIN merged = (DOMAIN first) \cup (DOMAIN second)
            /\ \A key \in (DOMAIN first) \ (DOMAIN second) : merged[key] = first[key]
            /\ \A key \in (DOMAIN second) \ (DOMAIN first) : merged[key] = second[key]

\* a merge has returned whose arguments each had a key the other lacked
C1_Witness ==
    /\ MergedAsReturned
    /\ (DOMAIN inputs0.first) \ (DOMAIN inputs0.second) # {}
    /\ (DOMAIN inputs0.second) \ (DOMAIN inputs0.first) # {}
    /\ \E key \in DOMAIN inputs0.second : DOMAIN inputs0.second[key] # {}

\* C2: for every key of the merged map, its attributes are those of first[key]
\* overlaid with those of second[key]: an attribute of second[key] has second's
\* value (also on a collision), an attribute of first[key] alone has first's.
C2_SecondWins ==
    MergedAsReturned =>
        LET merged == Deref("merged")
            first == inputs0.first
            second == inputs0.second
        IN  \A key \in DOMAIN merged :
                LET a == IF key \in DOMAIN first THEN first[key] ELSE EmptyDict
                    b == IF key \in DOMAIN second THEN second[key] ELSE EmptyDict
                IN  /\ DOMAIN merged[key] = (DOMAIN a) \cup (DOMAIN b)
                    /\ \A attr \in DOMAIN b : merged[key][attr] = b[attr]
                    /\ \A attr \in (DOMAIN a) \ (DOMAIN b) : merged[key][attr] = a[attr]

\* a merge has returned whose arguments collided on an attribute, with one
\* more attribute that only the first argument had
C2_Witness ==
    /\ MergedAsReturned
    /\ \E ka \in Collisions :
          (DOMAIN inputs0.first[ka[1]]) \ (DOMAIN inputs0.second[ka[1]]) # {}

\* the value map objects reachable from an outer dict object
ValueMapsOf(id) == {dicts[id][k] : k \in DOMAIN dicts[id]}

\* C3: the merge never changes its arguments, and the dict it returns and the
\* value maps in it are new objects: whatever is done to the result afterwards,
\* both arguments keep the contents they had at the call.
C3_InputsUntouched ==
    /\ Deref("first") = inputs0.first
    /\ Deref("second") = inputs0.second
    /\ \A id \in (DOMAIN dicts) \ {"first", "second"} :
          ValueMapsOf(id) \cap (ValueMapsOf("first") \cup ValueMapsOf("second")) = {}

\* the result of a merge was changed after the call, in a value map of a key
\* that the first argument has, and differs now from what was returned
C3_Witness ==
    /\ mutations > 0
    /\ \E key \in (DOMAIN dicts["merged"]) \cap (DOMAIN inputs0.first) :
          Deref("merged")[key] # _merge_by_dict_key(inputs0.first, inputs0.second)[key]

\* C4: the empty map is a two-sided identity: merging A with {} on either side
\* returns a map equal to A.
C4_EmptyIdentity ==
    MergedAsReturned =>
        /\ inputs0.second = EmptyDict => Deref("merged") = inputs0.first
        /\ inputs0.first = EmptyDict => Deref("merged") = inputs0.second
        /\ pc = "both" /\ inputs0.first = EmptyDict => Deref("swapped") = inputs0.second
        /\ pc = "both" /\ inputs0.second = EmptyDict => Deref("swapped") = inputs0.first

\* merge(A, {}) and merge({}, A) have both returned, for an A with attributes
C4_Witness ==
    /\ BothAsReturned
    /\ inputs0.second = EmptyDict
    /\ Entries(inputs0.first) = MaxEntries

\* C5: merge(A, B) and merge(B, A) have the same key set, and they differ
\* whenever a shared key has a shared attribute with two different values: each
\* result then holds the value of its own second argument.
C5_KeysCommuteValuesDoNot ==
    BothAsReturned =>
        LET merged == Deref("merged")
            swapped == Deref("swapped")
        IN  /\ DOMAIN merged = DOMAIN swapped
            /\ Collisions # {} => merged # swapped
            /\ \A ka \in Collisions :
                  /\ ka[2] \in (DOMAIN merged[ka[1]]) \cap (DOMAIN swapped[ka[1]])
                  /\ merged[ka[1]][ka[2]] = inputs0.second[ka[1]][ka[2]]
                  /\ swapped[ka[1]][ka[2]] = inputs0.first[ka[1]][ka[2]]

\* both orders of a merge have returned for arguments that collide on an attribute
C5_Witness == BothAsReturned /\ Collisions # {}

(***************************************************************************)
(* Claims about the nested merges, checked under SpecNested                *)
(***************************************************************************)
\* C23: the merge is associative: merging the merge of the first two maps with
\* the third gives the map that merging the first with the merge of the last
\* two gives.
C23_MergeAssociative ==
    /\ pc = "right" => Deref("left") = Deref("right")
    /\ pc = "nested_start" =>
           _merge_by_dict_key(_merge_by_dict_key(inputs0.first, inputs0.second), inputs0.third)
               = _merge_by_dict_key(inputs0.first,
                                    _merge_by_dict_key(inputs0.second, inputs0.third))

\* both groupings were merged for three maps that have an attribute of a key in
\* common, the first two with one value and the third with another, and the
\* result has the value of the third
C23_Witness ==
    /\ pc = "right"
    /\ \E key \in MergeKeys, attr \in MergeAttrs :
        /\ \A id \in {"first", "second", "third"} :
               key \in DOMAIN inputs0[id] /\ attr \in DOMAIN inputs0[id][key]
        /\ inputs0.first[key][attr] = inputs0.second[key][attr]
        /\ inputs0.second[key][attr] # inputs0.third[key][attr]
        /\ Deref("right")[key][attr] = inputs0.third[key][attr]
        /\ Deref("left")[key][attr] = inputs0.third[key][attr]

(***************************************************************************)
(* Claims about release date stamps, checked under SpecStamp               *)
(***************************************************************************)
\* the string has the shape "<MonthName> <Day>, <Year>": three tokens, an
\* English month name, digits followed by a comma, digits
WellShaped(date_string) ==
    LET tokens == split(date_string) IN
    /\ Len(tokens) = 3
    /\ tokens[1] \in DOMAIN MONTH_NAME_TO_NUM
    /\ Len(tokens[2]) >= 2
    /\ tokens[2][Len(tokens[2])] = ","
    /\ \A i \in 1..(Len(tokens[2]) - 1) : tokens[2][i] \in Digits
    /\ Len(tokens[3]) >= 1
    /\ \A i \in 1..Len(tokens[3]) : tokens[3][i] \in Digits

\* the seconds from the epoch to the local midnight of a date after 1970,
\* counted year by year and month by month
MonthLengths == <<31, 28, 31, 30, 31, 30, 31, 31, 30, 31, 30, 31>>
RECURSIVE DaysOfYearsSince1970(_)
DaysOfYearsSince1970(y) ==
    IF y <= 1970 THEN 0
    ELSE DaysOfYearsSince1970(y - 1)
         + (IF (y - 1) % 4 = 0 /\ ((y - 1) % 100 # 0 \/ (y - 1) % 400 = 0) THEN 366 ELSE 365)
RECURSIVE DaysOfMonthsBefore(_, _)
DaysOfMonthsBefore(y, m) ==
    IF m <= 1 THEN 0
    ELSE DaysOfMonthsBefore(y, m - 1) + MonthLengths[m - 1]
         + (IF m - 1 = 2 /\ y % 4 = 0 /\ (y % 100 # 0 \/ y % 400 = 0) THEN 1 ELSE 0)
ExpectedStamp(date_string) ==
    LET tokens == split(date_string)
        y == DecimalValue(tokens[3])
        m == MONTH_NAME_TO_NUM[tokens[1]]
        d == DecimalValue(SubSeq(tokens[2], 1, Len(tokens[2]) - 1))
    IN  (DaysOfYearsSince1970(y) + DaysOfMonthsBefore(y, m) + d - 1) * 86400 - tz

September28_2022 ==
    <<"S", "e", "p", "t", "e", "m", "b", "e", "r", " ", "2", "8", ",", " ", "2", "0", "2", "2">>

\* C6: get_character_release_date_stamp returns the sentinel sys.maxsize exactly
\* when the record has no releaseDate attribute; with the attribute, what it
\* returns is never the sentinel, and for a string of the documented shape it is
\* the local-midnight timestamp of that date (1664294400 for "September 28, 2022"
\* at UTC+8, the docstring's example).
C6_SentinelIffAbsent ==
    pc = "stamp_done" =>
        /\ RELEASE_DATE \notin DOMAIN character <=> stamp = Return(MaxSize)
        /\ RELEASE_DATE \in DOMAIN character /\ stamp.exc = "none" =>
              /\ stamp.val < MaxSize
              /\ WellShaped(character[RELEASE_DATE]) =>
                    stamp.val = ExpectedStamp(character[RELEASE_DATE])
              /\ character[RELEASE_DATE] = September28_2022 /\ tz = 28800 =>
                    stamp.val = 1664294400

\* the stamp of a record with a well-shaped release date was returned
C6_Witness ==
    /\ pc = "stamp_done"
    /\ RELEASE_DATE \in DOMAIN character
    /\ character[RELEASE_DATE] = September28_2022
    /\ tz = 28800
    /\ stamp.exc = "none"

\* C9: a release date string that does not have the shape "<MonthName> <Day>,
\* <Year>", or whose month token is no English month name, makes the conversion
\* raise: no timestamp and no sentinel is returned for it.
C9_MalformedDateRaises ==
    pc = "stamp_done" /\ RELEASE_DATE \in DOMAIN character
                      /\ ~WellShaped(character[RELEASE_DATE])
        => stamp.exc # "none"

(***************************************************************************)
(* Claims about the ordered list, checked under SpecJson                   *)
(***************************************************************************)
\* get_character_info_json returned its list
JsonReturned == pc = "json_done" /\ json.exc = "none"
StampOf(record) == get_character_release_date_stamp(record).val

\* C7: in the list get_character_info_json returns, of any two records the
\* earlier one has the smaller timestamp, or the same timestamp and a nameCn
\* that is not after the later one's in code-point order.
C7_AscendingStampThenName ==
    JsonReturned =>
        \A i, j \in 1..Len(json.val) :
            i < j =>
                \/ StampOf(json.val[i]) < StampOf(json.val[j])
                \/ /\ StampOf(json.val[i]) = StampOf(json.val[j])
                   /\ ~StrLess(json.val[j]["nameCn"], json.val[i]["nameCn"])

\* a list of three was returned in which two records share a timestamp, and
\* the map held both the groups and the names of a group in another order
C7_Witness ==
    /\ JsonReturned
    /\ Len(json.val) = 3
    /\ \E i, j \in 1..3 : i # j /\ StampOf(json.val[i]) = StampOf(json.val[j])
    /\ StampOf(json.val[1]) # StampOf(json.val[3])
    /\ MapValues(character_info_map) = <<json.val[3], json.val[2], json.val[1]>>

\* C8: in the list get_character_info_json returns, every record without a
\* releaseDate comes after every record with one, whatever their names.
C8_UnreleasedLast ==
    JsonReturned =>
        \A i, j \in 1..Len(json.val) :
            RELEASE_DATE \notin DOMAIN json.val[i] /\ RELEASE_DATE \in DOMAIN json.val[j]
                => j < i

\* a list was returned with a dated record and an undated one that has the
\* smaller name and came first in the map
C8_Witness ==
    /\ JsonReturned
    /\ \E i, j \in 1..Len(json.val) :
        /\ RELEASE_DATE \notin DOMAIN json.val[i]
        /\ RELEASE_DATE \in DOMAIN json.val[j]
        /\ StrLess(json.val[i]["nameCn"], json.val[j]["nameCn"])
        /\ character_info_map.order[1] = json.val[i]["nameCn"]

\* every release date of the English source has the documented shape and
\* converts to a timestamp
AllDatesConvert ==
    \A name \in DOMAIN sources.en :
        /\ WellShaped(sources.en[name][RELEASE_DATE])
        /\ convert_to_local_unix_date_tamp(sources.en[name][RELEASE_DATE]).exc = "none"

\* C10: reconciling and ordering two sources of which one lacks some identity
\* does not raise, and that identity is in the list as a partial record with
\* exactly the attributes of its one source.
C10_PartialRecordsPass ==
    pc = "json_done" /\ AllDatesConvert =>
        /\ json.exc = "none"
        /\ \A name \in (DOMAIN sources.cn) \ (DOMAIN sources.en) :
              \E i \in 1..Len(json.val) : json.val[i] = sources.cn[name]
        /\ \A name \in (DOMAIN sources.en) \ (DOMAIN sources.cn) :
              \E i \in 1..Len(json.val) : json.val[i] = sources.en[name]

\* how many entries of a list are the record
Occurrences(records, record) == Cardinality({i \in 1..Len(records) : records[i] = record})

\* C22: the list get_character_info_json returns is a permutation of the
\* values of the character info map: as long as the map has keys, and every
\* record in it as often as among the map's values.
C22_ListIsPermutation ==
    JsonReturned =>
        LET values == MapValues(character_info_map) IN
        /\ Len(json.val) = Cardinality(DOMAIN character_info_map.map)
        /\ \A key \in DOMAIN character_info_map.map :
              Occurrences(json.val, character_info_map.map[key]) = 1
        /\ \A i \in 1..Len(json.val) :
              Occurrences(json.val, json.val[i]) = Occurrences(values, json.val[i])

\* a list of three records was returned, two of one timestamp and one of
\* another, that begins with the last value of the map
C22_Witness ==
    /\ JsonReturned
    /\ Len(json.val) = 3
    /\ Cardinality({StampOf(json.val[i]) : i \in 1..3}) = 2
    /\ json.val[1] = MapValues(character_info_map)[3]

(***************************************************************************)
(* Claims about the re-keying of the English source, checked under         *)
(* SpecRekey                                                               *)
(***************************************************************************)
\* C24: re-keying the English records to Chinese names loses no record: the
\* result has as many entries as the English-keyed map, and every English
\* record is under the Chinese name of its English name, also when two
\* English names have one Chinese name.
C24_RekeyLosesNoRecord ==
    pc = "rekey_done" =>
        /\ character_info_with_cn_name_key.exc = "none"
        /\ Cardinality(DOMAIN character_info_with_cn_name_key.val)
               = Cardinality(DOMAIN character_info_with_en_name_key.map)
        /\ \A name_en \in DOMAIN character_info_with_en_name_key.map :
               /\ character_names_cn[name_en] \in DOMAIN character_info_with_cn_name_key.val
               /\ character_info_with_cn_name_key.val[character_names_cn[name_en]]
                      = character_info_with_en_name_key.map[name_en]

(***************************************************************************)
(* Claims about the enemies of a half-cell, checked under SpecExtract      *)
(***************************************************************************)
ExtractReturned == pc \in {"extract_done", "deduplicated_again"} /\ half_enemies.exc = "none"

\* the position of the first stub of a list that has the name
FirstWith(infos, name) ==
    CHOOSE i \in 1..Len(infos) :
        infos[i].nameCn = name /\ \A j \in 1..(i - 1) : infos[j].nameCn # name

\* C17: the deduplicated list has every distinct name of the list exactly once,
\* each with the stub of its first occurrence (whatever the URLs of the later
\* ones), in the order of those first occurrences; deduplicating it again
\* returns it unchanged.
C17_DedupFirstWins ==
    ExtractReturned =>
        LET infos == enemy_info.val
            dedup == half_enemies.val
        IN  /\ {dedup[k].nameCn : k \in 1..Len(dedup)} = {infos[i].nameCn : i \in 1..Len(infos)}
            /\ \A k, l \in 1..Len(dedup) : k # l => dedup[k].nameCn # dedup[l].nameCn
            /\ \A k \in 1..Len(dedup) : dedup[k] = infos[FirstWith(infos, dedup[k].nameCn)]
            /\ \A k, l \in 1..Len(dedup) :
                  k < l => FirstWith(infos, dedup[k].nameCn) < FirstWith(infos, dedup[l].nameCn)
            /\ pc = "deduplicated_again" => deduplicated_again = dedup

\* a list with a name twice, under two URLs, around another name was
\* deduplicated, and the result deduplicated again
C17_Witness ==
    /\ pc = "deduplicated_again"
    /\ Len(enemy_info.val) = 3
    /\ enemy_info.val[1].nameCn = enemy_info.val[3].nameCn
    /\ enemy_info.val[1].biligameUrl # enemy_info.val[3].biligameUrl
    /\ enemy_info.val[2].nameCn # enemy_info.val[1].nameCn

\* the positions of the links of a cell whose title is their visible text
Matching(links) ==
    {i \in 1..Len(links) :
        "title" \in DOMAIN links[i].attrs /\ links[i].attrs["title"] = links[i].text}

\* C19: the list collected from a half-cell has one stub per hyperlink whose
\* visible text equals its title, named by that title, in the order of the
\* links; a link without title or with another title adds nothing and raises
\* nothing.
C19_StubIffTitleIsText ==
    /\ pc # "extract_call" /\ enemy_info.exc = "none" =>
        LET links == single_half
            infos == enemy_info.val
        IN  /\ Len(infos) = Cardinality(Matching(links))
            /\ \A i \in Matching(links) :
                  LET k == Cardinality({j \in Matching(links) : j <= i})
                  IN  /\ infos[k].nameCn = links[i].text
                      /\ infos[k].biligameUrl
                             = unquote(ENEMY_PAGE_URL_PREFIX \o links[i].attrs["href"])
    /\ pc # "extract_call" /\ enemy_info.exc # "none" =>
        \E i \in Matching(single_half) : "href" \notin DOMAIN single_half[i].attrs

\* a cell was read that has a link without title and a link with another
\* title between two links that are kept
C19_Witness ==
    /\ pc = "extract_done"
    /\ enemy_info.exc = "none"
    /\ Len(single_half) = 3
    /\ Matching(single_half) = {1, 3}
    /\ single_half[1].text # single_half[3].text

(***************************************************************************)
(* Claims about the decoding of a period, checked under SpecDecode         *)
(***************************************************************************)
PeriodReturned == pc = "period_done" /\ period_info.exc = "none"
FloorName == (9 :> "floor9") @@ (10 :> "floor10") @@ (11 :> "floor11") @@ (12 :> "floor12")
ChamberName == (1 :> "chamber1") @@ (2 :> "chamber2") @@ (3 :> "chamber3")

\* the rows a scan of the period's rows takes for the level list and for the
\* list of a half
LevelRows(rows) ==
    {i \in 1..Len(rows) : rows[i].th # << >> /\ Contains(rows[i].th[1], ENEMY_LEVEL)}
HalfRows(half, rows) ==
    {i \in 1..Len(rows) :
        rows[i].th # << >> /\ Contains(rows[i].th[1], half) /\ rows[i].td # << >>}

\* C11: in a returned Period Record, entry i (0..11) of the level list, of the
\* first-half lists and of the second-half lists is at floor 9 + i div 3,
\* chamber 1 + i mod 3; the record has the floors floor9..floor12, each with
\* chamber1..chamber3 (the docstring's levels put 85 at floor10.chamber3 and
\* 72 at floor9.chamber1).
C11_SlotLayout ==
    PeriodReturned =>
        LET info == period_info.val
            levels == get_enemy_levels_in_order(all_wikitable_rows).val
            firsts == enemy_info_of_halves(
                          get_halves_in_order(FIRST_HALF, all_wikitable_rows), 1, << >>).val
            seconds == enemy_info_of_halves(
                           get_halves_in_order(SECOND_HALF, all_wikitable_rows), 1, << >>).val
        IN  /\ DOMAIN info = {"floor9", "floor10", "floor11", "floor12"}
            /\ \A f \in DOMAIN info : DOMAIN info[f] = {"chamber1", "chamber2", "chamber3"}
            /\ \A i \in 0..11 :
                  LET chamber == info[FloorName[9 + (i \div 3)]][ChamberName[1 + (i % 3)]]
                  IN  /\ chamber.enemyLevel = levels[i + 1]
                      /\ chamber.firstHalf = [enemies |-> firsts[i + 1]]
                      /\ chamber.secondHalf = [enemies |-> seconds[i + 1]]
            /\ SubSeq(levels, 1, 12) = DocLevels =>
                  /\ info["floor10"]["chamber3"].enemyLevel = 85
                  /\ info["floor9"]["chamber1"].enemyLevel = 72

\* a period with the docstring's twelve levels was decoded
C11_Witness ==
    /\ PeriodReturned
    /\ get_enemy_levels_in_order(all_wikitable_rows).val = DocLevels
    /\ period_info.val["floor12"]["chamber3"].secondHalf.enemies[1].nameCn = <<"S", "1", "2">>

\* C12: when the level list, the first-half list or the second-half list of a
\* period has fewer than 12 entries, decoding raises and returns no record.
C12_ShortListRaises ==
    pc = "period_done"
        /\ (\/ Cardinality(LevelRows(all_wikitable_rows)) < 12
            \/ Cardinality(HalfRows(FIRST_HALF, all_wikitable_rows)) < 12
            \/ Cardinality(HalfRows(SECOND_HALF, all_wikitable_rows)) < 12)
        => period_info.exc # "none"

\* a period with eleven level rows and twelve rows of each half was decoded,
\* and the decoding raised IndexError
C12_Witness ==
    /\ pc = "period_done"
    /\ Cardinality(LevelRows(all_wikitable_rows)) = 11
    /\ Cardinality(HalfRows(FIRST_HALF, all_wikitable_rows)) = 12
    /\ Cardinality(HalfRows(SECOND_HALF, all_wikitable_rows)) = 12
    /\ period_info.exc = "IndexError"

\* C13: when the level list, the first-half list or the second-half list of a
\* period has more than 12 entries, decoding raises and returns no record.
C13_LongListRaises ==
    pc = "period_done"
        /\ (\/ Cardinality(LevelRows(all_wikitable_rows)) > 12
            \/ Cardinality(HalfRows(FIRST_HALF, all_wikitable_rows)) > 12
            \/ Cardinality(HalfRows(SECOND_HALF, all_wikitable_rows)) > 12)
        => period_info.exc # "none"

\* C20: the level list of every row sequence is in non-decreasing order, so
\* the enemyLevel values of a returned Period Record are non-decreasing from
\* floor9.chamber1 to floor12.chamber3.
C20_LevelsNonDecreasing ==
    /\ LET levels == get_enemy_levels_in_order(all_wikitable_rows) IN
       pc = "period_done" /\ levels.exc = "none" =>
           \A i, j \in 1..Len(levels.val) : i < j => levels.val[i] <= levels.val[j]
    /\ PeriodReturned =>
           \A i, j \in 0..11 :
               i < j =>
                   period_info.val[FloorName[9 + (i \div 3)]][ChamberName[1 + (i % 3)]].enemyLevel
                   <= period_info.val[FloorName[9 + (j \div 3)]][ChamberName[1 + (j % 3)]].enemyLevel

\* the chamber a row of the period belongs to: every chamber of the page names
\* its enemies after its number, and its level rows stand before its half rows
ChamberOfName(name) == CHOOSE c \in 1..12 : Decimal(c) = Tail(name)
ChamberOfRow(rows, k) ==
    LET named == {j \in k..Len(rows) : rows[j].td # << >> /\ rows[j].td[1].links # << >>}
        next == CHOOSE j \in named : \A l \in named : j <= l
    IN  ChamberOfName(rows[next].td[1].links[1].attrs["title"])
\* the n-th row, in document order, of a set of rows
NthOf(S, n) == CHOOSE k \in S : Cardinality({j \in S : j < k}) = n - 1

\* C21: in a returned Period Record the enemyLevel, the firstHalf.enemies and
\* the secondHalf.enemies of one slot come from rows of one chamber of the
\* page.
C21_SlotOfOneChamber ==
    PeriodReturned =>
        \A i \in 0..11 :
            LET chamber == period_info.val[FloorName[9 + (i \div 3)]][ChamberName[1 + (i % 3)]]
                level_row == NthOf(LevelRows(all_wikitable_rows), i + 1)
                level_chamber == ChamberOfRow(all_wikitable_rows, level_row)
            IN  /\ chamber.enemyLevel = enemy_level_of(all_wikitable_rows[level_row]).val
                /\ \A e \in 1..Len(chamber.firstHalf.enemies) :
                       ChamberOfName(chamber.firstHalf.enemies[e].nameCn) = level_chamber
                /\ \A e \in 1..Len(chamber.secondHalf.enemies) :
                       ChamberOfName(chamber.secondHalf.enemies[e].nameCn) = level_chamber

(***************************************************************************)
(* Claims about the map of the periods, checked under SpecCatalog          *)
(***************************************************************************)
CatalogReturned == pc = "catalog_done" /\ period_info_map.exc = "none"
ConfiguredLabels == {periods[i].period : i \in 1..Len(periods)}
\* the configured periods whose decoding raises
FailingPeriods ==
    {i \in 1..Len(periods) :
        get_period_info_of_page(period_page, periods[i].periodKey).exc # "none"}
\* the last configured period of a label
LastOf(label) ==
    CHOOSE i \in 1..Len(periods) :
        /\ periods[i].period = label
        /\ \A j \in 1..Len(periods) : periods[j].period = label => j <= i

\* C14, as stated: for a configuration of N period entries the returned map
\* has exactly N keys, and its key set is the set of the configured labels.
C14_ExactlyNKeys ==
    CatalogReturned =>
        /\ Cardinality(DOMAIN period_info_map.val) = Len(periods)
        /\ DOMAIN period_info_map.val = ConfiguredLabels

\* C14: the key set of the returned map is the set of the configured labels,
\* one key for each distinct label (N keys for N entries of pairwise distinct
\* labels); a label configured more than once carries the record of its last
\* entry.
C14_KeysAreLabels ==
    CatalogReturned =>
        /\ DOMAIN period_info_map.val = ConfiguredLabels
        /\ Cardinality(DOMAIN period_info_map.val) = Cardinality(ConfiguredLabels)
        /\ Cardinality(ConfiguredLabels) = Len(periods) =>
               Cardinality(DOMAIN period_info_map.val) = Len(periods)
        /\ \A label \in ConfiguredLabels :
               period_info_map.val[label]
                   = get_period_info_of_page(period_page, periods[LastOf(label)].periodKey).val

\* a map was returned for two entries of one label whose periods differ
C14_Witness ==
    /\ CatalogReturned
    /\ Len(periods) = 2
    /\ periods[1].period = periods[2].period
    /\ period_page[periods[1].periodKey] # period_page[periods[2].periodKey]

\* C15: one call over N >= 1 configured periods fetches the schedule page
\* exactly once.
C15_OneFetch ==
    pc = "catalog_done" /\ Len(periods) >= 1 => fetches = 1

\* C16: when the decoding of a configured period raises, the call raises that
\* error (that of the first such period) and returns no map.
C16_FailureAborts ==
    pc # "catalog_call" /\ FailingPeriods # {} =>
        LET first_failing == CHOOSE i \in FailingPeriods : \A j \in FailingPeriods : i <= j
        IN  /\ pc = "catalog_raised"
            /\ period_info_map
                   = get_period_info_of_page(period_page, periods[first_failing].periodKey)

\* the call raised IndexError at its second period, after the first had decoded
C16_Witness ==
    /\ pc = "catalog_raised"
    /\ period_idx = 1
    /\ period_info_map.exc = "IndexError"
    /\ fetches = 2

(***************************************************************************)
(* Claims about the base resistance of an enemy, checked under             *)
(* SpecResistance                                                          *)
(***************************************************************************)
\* the <tbody> elements whose first header cell has the resistance marker
ResistanceTables ==
    {i \in 1..Len(enemy_page) :
        /\ enemy_page[i] # << >>
        /\ enemy_page[i][1].th # << >>
        /\ [tag |-> "", text |-> RESISTANCE]
               \in {enemy_page[i][1].th[1][j] : j \in 1..Len(enemy_page[i][1].th[1])}}

\* C18: get_base_resistance_info of a page without a resistance table raises;
\* it does not return.
C18_MissingTableRaises ==
    pc = "resistance_done" /\ ResistanceTables = {} => resistance_info.exc # "none"

====
